---- MODULE Spec2Model ----
(***************************************************************************)
(* Model of the two admission/processing engines of global-ts-utilities,   *)
(* Batch (batch.ts) and Queue (queue.ts), of its event emitters            *)
(* (event-emitter.ts) and of Loop (loop.ts).  One instance is modelled     *)
(* per behaviour; `engine` says which one.  Every handler that             *)
(* runs without suspension in the JavaScript event loop is one action;     *)
(* every `await` of an external call splits a handler into the action that *)
(* issues the call and the action that resumes after it settles.           *)
(***************************************************************************)
EXTENDS Integers, Sequences, FiniteSets, TLC

\* ------------------------------------------------------------------ bounds
MaxItems == 2
MaxBatchSize == 2
MaxLimit == 2
MaxConcurrency == 2
MaxListeners == 2
MaxCalls == 2
MaxRuns == 3
MaxTicks == 2

Items == 1..MaxItems

VARIABLES
    engine,      \* "batch", "queue", "emitter" or "loop": the instance this
                 \* behaviour is about
    emitted,     \* calls the last step made on the emitter: the names of the events
                 \* passed to em.emit, and "destroyEvents" for em.destroyEvents()
    delivered,   \* <<item, outcome>>: the promise callbacks invoked by the last step
    heard,       \* the events of the last step that reached the listeners
                 \* registered on the emitter when the step began
    thrown,      \* the exception the last step threw to its caller: "none",
                 \* "already_initialized" (QueueError of init) or
                 \* "listener_error" (what a listener threw, out of emit)
    \* ---- Batch
    bBatchSize,  \* config.batchSize
    bLimit,      \* config.limit
    bItems,      \* _items (item ids, in queue order)
    bTimer,      \* timer !== null
    bSuccess,    \* _success
    bError,      \* _error
    bRunning,    \* _running
    bFlushes,    \* invocations of fn that have not settled yet
    bFut,        \* per item: promise created by add: "none", "pending", "settled"
    bWhere,      \* per item: "new", "queued", "taken" (handed to fn), "gone" (dropped)
    bDrain,      \* position of the flush() call: "idle", "yield", "loop", "await"
    bDrainOn,    \* the batch whose run() the flush() call awaits
    \* ---- Queue
    qType,       \* config.type
    qLimit,      \* config.limit
    qConcurrency,\* config.concurrency
    qItems,      \* _items
    qInterval,   \* interval !== null
    qProcessing, \* _processing
    qPaused,     \* _paused
    qSuccess,    \* _success
    qError,      \* _error
    qTimeout,    \* _timeout
    qCycles,     \* processItems invocations suspended in Promise.allSettled
    qGuard,      \* per item: its setTimeout: "none", "armed", "off" (fired or cleared)
    qFut,        \* per item: promise created by enqueue: "none", "pending", "settled"
    qWhere,      \* per item: "new", "queued", "taken" (handed to process), "gone"
    qDrain,      \* position of the flush() call
    \* ---- event emitter
    eListeners,  \* events.get(event): the array of registered listeners
    eKind,       \* per listener: "none", "on" or "once" (how it was registered)
    eThrows,     \* per listener: whether the function throws when called
    eCalls,      \* per listener: how often the function was called
    eLast,       \* the last emit: the array when it started, the listeners it
                 \* called in order, the number it returned
    \* ---- Loop
    lRunning,    \* _running
    lRun,        \* per start() call: where it is suspended
    lTick        \* per start() call: its local counter i

bvars == <<bBatchSize, bLimit, bItems, bTimer, bSuccess, bError, bRunning,
           bFlushes, bFut, bWhere, bDrain, bDrainOn>>
qvars == <<qType, qLimit, qConcurrency, qItems, qInterval, qProcessing,
           qPaused, qSuccess, qError, qTimeout, qCycles, qGuard, qFut, qWhere, qDrain>>
evars == <<eListeners, eKind, eThrows, eCalls, eLast>>
lvars == <<lRunning, lRun, lTick>>
vars == <<engine, emitted, heard, delivered, thrown, bvars, qvars, evars, lvars>>

\* ------------------------------------------------------------- helpers
Min(a, b) == IF a < b THEN a ELSE b

Range(s) == {s[k] : k \in 1..Len(s)}

\* ComplexEventEmitter: the events, of a sequence of calls on the emitter,
\* that a listener registered before the first call receives: emit(event)
\* invokes the listeners registered at that time, destroyEvents() removes
\* them all.
Heard(calls) ==
    {calls[k] : k \in {n \in 1..Len(calls) :
                          \A j \in 1..n : calls[j] # "destroyEvents"}}

\* The callbacks a step invokes on the items of a sequence, all with one outcome.
Deliver(items, outcome) == {<<items[k], outcome>> : k \in 1..Len(items)}

\* ===================================================================
\*                               Batch
\* ===================================================================

\* A batch getter that slices from the end of the queue.
BatchOf_FromEnd(items, size) ==
    SubSeq(items, Len(items) - Min(size, Len(items)) + 1, Len(items))

\* get batch(): this._items.slice(0, this.config.batchSize)
BatchOf(items, size) == SubSeq(items, 1, Min(size, Len(items)))

\* A run() that leaves the batch it took in the queue.
SliceFrom_Nothing(items, n) == items

\* this._items.slice(batch.length)
SliceFrom(items, n) == SubSeq(items, n + 1, Len(items))

\* private stop(): clears the timer and emits "stop" only if it was set.
BStopEmits(timer) == IF timer THEN {"stop"} ELSE {}

\* run(), up to its first suspension (await this.fn(...)).  Returns the new
\* values of the fields it touches and the batch handed to fn (<<>> if none).
BRunStart(items, running, timer, size) ==
    IF running
    THEN [items |-> items, running |-> running, timer |-> timer,
          batch |-> <<>>, emits |-> {}]
    ELSE LET batch == BatchOf(items, size)
             rest == SliceFrom(items, Len(batch))
         IN IF Len(batch) = 0
            THEN [items |-> items, running |-> FALSE, timer |-> timer,
                  batch |-> <<>>, emits |-> {}]
            ELSE [items |-> rest, running |-> TRUE,
                  timer |-> IF Len(rest) = 0 THEN FALSE ELSE timer,
                  batch |-> batch,
                  emits |-> IF Len(rest) = 0 THEN BStopEmits(timer) ELSE {}]

\* The in-flight record of a flush: the batch and its timeout guard.
Flush(batch) == [batch |-> batch, guard |-> "armed"]

\* flush() spins on `await this.run()` while another flush holds _running:
\* only microtasks run, so no timer callback can fire.
BSpinning == bDrain = "loop" /\ bRunning /\ Len(bItems) > 0

\* Applies a started run to the state (shared by add, run, the timer and flush).
BApplyRun(r) ==
    /\ bItems' = r.items
    /\ bRunning' = r.running
    /\ bTimer' = r.timer
    /\ bFlushes' = IF Len(r.batch) = 0 THEN bFlushes
                   ELSE bFlushes \cup {Flush(r.batch)}
    /\ bWhere' = [i \in Items |->
                    IF i \in Range(r.batch) THEN "taken" ELSE bWhere[i]]

\* new Batch(fn, config), with the configuration drawn from the given sets
BatchInit(sizes, limits) ==
    /\ bBatchSize \in sizes
    /\ bLimit \in limits
    /\ bItems = <<>>
    /\ bTimer = FALSE
    /\ bSuccess = 0
    /\ bError = 0
    /\ bRunning = FALSE
    /\ bFlushes = {}
    /\ bFut = [i \in Items |-> "none"]
    /\ bWhere = [i \in Items |-> "new"]
    /\ bDrain = "idle"
    /\ bDrainOn = <<>>

\* The backpressure test off by one: admits one item beyond the limit.
BFull_OffByOne(items, limit) == Len(items) > limit

\* add(): the backpressure test, this._items.length >= this.config.limit
BFull(items, limit) == Len(items) >= limit

\* The size trigger off by one: a full batch does not trigger the flush.
BReached_Strict(items, size) == Len(items) > size

\* add(): the size trigger, this._items.length >= this.config.batchSize
BReached(items, size) == Len(items) >= size

\* An add that never starts the timer.
BAddTimer_Never(doRun, timer) == timer

\* add(): below the size trigger a doRun add starts the timer if there is none
BAddTimer(doRun, timer) == IF doRun THEN TRUE ELSE timer

\* add(item, doRun)
BAdd(i, doRun) ==
    /\ engine = "batch"
    /\ thrown' = "none"
    /\ bWhere[i] = "new"
    /\ \A j \in Items : j < i => bWhere[j] # "new"
    /\ IF BFull(bItems, bLimit)
       THEN /\ emitted' = {}
            /\ heard' = emitted'
            /\ delivered' = {<<i, "rej_limit">>}
            /\ UNCHANGED bvars
       ELSE LET pushed == Append(bItems, i)
                r == IF doRun /\ BReached(pushed, bBatchSize)
                     THEN BRunStart(pushed, bRunning, bTimer, bBatchSize)
                     ELSE [items |-> pushed, running |-> bRunning,
                           timer |-> BAddTimer(doRun, bTimer),
                           batch |-> <<>>, emits |-> {}]
            IN /\ emitted' = r.emits
               /\ heard' = emitted'
               /\ delivered' = {}
               /\ bItems' = r.items
               /\ bRunning' = r.running
               /\ bTimer' = r.timer
               /\ bFlushes' = IF Len(r.batch) = 0 THEN bFlushes
                              ELSE bFlushes \cup {Flush(r.batch)}
               /\ bWhere' = [j \in Items |->
                               IF j \in Range(r.batch) THEN "taken"
                               ELSE IF j = i THEN "queued" ELSE bWhere[j]]
               /\ bFut' = [bFut EXCEPT ![i] = "pending"]
               /\ UNCHANGED <<bBatchSize, bLimit, bSuccess, bError,
                              bDrain, bDrainOn>>
    /\ UNCHANGED <<engine, evars, lvars, qvars>>

\* run() called by the user
BRun ==
    /\ engine = "batch"
    /\ thrown' = "none"
    /\ LET r == BRunStart(bItems, bRunning, bTimer, bBatchSize)
       IN /\ BApplyRun(r)
          /\ emitted' = r.emits
          /\ heard' = emitted'
          /\ delivered' = {}
    /\ UNCHANGED <<engine, evars, lvars, qvars, bBatchSize, bLimit, bSuccess, bError, bFut,
                   bDrain, bDrainOn>>

\* the setInterval callback installed by start()
BTick ==
    /\ engine = "batch"
    /\ thrown' = "none"
    /\ bTimer
    /\ ~BSpinning
    /\ LET r == BRunStart(bItems, bRunning, bTimer, bBatchSize)
       IN /\ BApplyRun(r)
          /\ emitted' = r.emits
          /\ heard' = emitted'
          /\ delivered' = {}
    /\ UNCHANGED <<engine, evars, lvars, qvars, bBatchSize, bLimit, bSuccess, bError, bFut,
                   bDrain, bDrainOn>>

\* start()
BStart ==
    /\ engine = "batch"
    /\ thrown' = "none"
    /\ bTimer' = TRUE
    /\ emitted' = {}
    /\ heard' = emitted'
    /\ delivered' = {}
    /\ UNCHANGED <<engine, evars, lvars, qvars, bBatchSize, bLimit, bItems, bSuccess, bError,
                   bRunning, bFlushes, bFut, bWhere, bDrain, bDrainOn>>

\* A settlement that is lost: the callbacks run but no promise changes.
SettleAll_Lost(fut, items) == fut

\* Every item of the sequence has its promise settled, if it was pending.
SettleAll(fut, items) ==
    [i \in Items |-> IF i \in Range(items) /\ fut[i] = "pending"
                     THEN "settled" ELSE fut[i]]

\* the setTimeout callback armed by run() fires before fn settles
BTimeoutFire(f) ==
    /\ engine = "batch"
    /\ thrown' = "none"
    /\ f \in bFlushes
    /\ f.guard = "armed"
    /\ ~BSpinning
    /\ bRunning' = FALSE
    /\ bFut' = SettleAll(bFut, f.batch)
    /\ delivered' = Deliver(f.batch, "rej_timeout")
    /\ bFlushes' = (bFlushes \ {f}) \cup {[f EXCEPT !.guard = "fired"]}
    /\ emitted' = {}
    /\ heard' = emitted'
    /\ UNCHANGED <<engine, evars, lvars, qvars, bBatchSize, bLimit, bItems, bTimer, bSuccess,
                   bError, bWhere, bDrain, bDrainOn>>

\* What fn can produce for a batch of n items: a list of outcomes of any
\* length near n (each a value or an Error), or an exception.
Outcomes(n) == UNION {[1..k -> {"ok", "err"}] : k \in 0..(n + 1)}

CountOf(res, kind) == Cardinality({k \in 1..Len(res) : res[k] = kind})

\* The result loop with its branches swapped.
BItemOutcome_Swapped(r) == IF r = "err" THEN "res" ELSE "rej_item"

\* The callback the result loop invokes for one outcome.
BItemOutcome(r) == IF r = "err" THEN "rej_item" ELSE "res"

\* for (let i = 0; i < results.length; i++) ... batch[i].rej / batch[i].res
BZip(batch, res) == {<<batch[k], BItemOutcome(res[k])>> : k \in 1..Len(res)}

\* A length test that lets a list shorter than the batch through.
BMatches_AtMost(batch, res) == Len(res) <= Len(batch)

\* run(): the length test, results.length !== batch.length negated
BMatches(batch, res) == Len(res) = Len(batch)

\* A catch block that emits the error event for every failure.
BErrorEvent_Always(isBatchError) == {"error"}

\* run(), catch block: if (error instanceof BatchError) this.em.emit("error", error)
BErrorEvent(isBatchError) == IF isBatchError THEN {"error"} ELSE {}

\* The flush() call resumes when the run() it awaits completes.
BResume(f) ==
    /\ bDrain' = IF bDrain = "await" /\ bDrainOn = f.batch THEN "loop" ELSE bDrain
    /\ bDrainOn' = IF bDrain = "await" /\ bDrainOn = f.batch THEN <<>> ELSE bDrainOn

\* run(), resumed after `await this.fn(...)` returned the list res
BFnReturn(f, res) ==
    /\ engine = "batch"
    /\ thrown' = "none"
    /\ f \in bFlushes
    /\ res \in Outcomes(Len(f.batch))
    /\ IF BMatches(f.batch, res)
       THEN /\ bSuccess' = bSuccess + CountOf(res, "ok")
            /\ bError' = bError + CountOf(res, "err")
            /\ delivered' = BZip(f.batch, res)
            /\ emitted' = {"data"} \cup (IF Len(bItems) = 0 THEN {"empty"} ELSE {})
            /\ heard' = emitted'
       ELSE /\ bSuccess' = bSuccess
            /\ bError' = bError + Len(f.batch)
            /\ delivered' = Deliver(f.batch, "rej_mismatch")
            /\ emitted' = BErrorEvent(TRUE)
            /\ heard' = emitted'
    /\ bFut' = SettleAll(bFut, f.batch)
    /\ bRunning' = FALSE
    /\ bFlushes' = bFlushes \ {f}
    /\ BResume(f)
    /\ UNCHANGED <<engine, evars, lvars, qvars, bBatchSize, bLimit, bItems, bTimer, bWhere>>

\* run(), resumed after `await this.fn(...)` threw or rejected; isBatchError
\* says whether the error thrown is an instance of BatchError
BFnThrow(f, isBatchError) ==
    /\ engine = "batch"
    /\ thrown' = "none"
    /\ f \in bFlushes
    /\ bError' = bError + Len(f.batch)
    /\ bFut' = SettleAll(bFut, f.batch)
    /\ delivered' = Deliver(f.batch, "rej_thrown")
    /\ emitted' = BErrorEvent(isBatchError)
    /\ heard' = emitted'
    /\ bRunning' = FALSE
    /\ bFlushes' = bFlushes \ {f}
    /\ BResume(f)
    /\ UNCHANGED <<engine, evars, lvars, qvars, bBatchSize, bLimit, bItems, bTimer, bSuccess,
                   bWhere>>

\* A clear() that drops the queue but leaves the interval timer running.
BClearBody_KeepsTimer ==
    /\ bItems' = <<>>
    /\ bTimer' = bTimer
    /\ bWhere' = [i \in Items |->
                    IF bWhere[i] = "queued" THEN "gone" ELSE bWhere[i]]
    /\ delivered' = {}
    /\ UNCHANGED <<bBatchSize, bLimit, bSuccess, bError, bRunning, bFlushes,
                   bFut, bDrain, bDrainOn>>

\* clear(): the queue is dropped and stop() clears the timer
BClearBody ==
    /\ bItems' = <<>>
    /\ bTimer' = FALSE
    /\ bWhere' = [i \in Items |->
                    IF bWhere[i] = "queued" THEN "gone" ELSE bWhere[i]]
    /\ delivered' = {}
    /\ UNCHANGED <<bBatchSize, bLimit, bSuccess, bError, bRunning, bFlushes,
                   bFut, bDrain, bDrainOn>>

BClear ==
    /\ engine = "batch"
    /\ thrown' = "none"
    /\ BClearBody
    /\ emitted' = BStopEmits(bTimer) \cup {"drained"}
    /\ heard' = emitted'
    /\ UNCHANGED <<engine, evars, lvars, qvars>>

\* destroy(): clear(), then the listeners are dropped
BDestroy ==
    /\ engine = "batch"
    /\ thrown' = "none"
    /\ BClearBody
    /\ LET calls == (IF bTimer THEN <<"stop">> ELSE <<>>)
                    \o <<"drained", "destroyEvents">>
       IN /\ emitted' = Range(calls)
          /\ heard' = Heard(calls)
    /\ UNCHANGED <<engine, evars, lvars, qvars>>

\* resetMetrics()
BResetMetrics ==
    /\ engine = "batch"
    /\ thrown' = "none"
    /\ bSuccess' = 0
    /\ bError' = 0
    /\ emitted' = {}
    /\ heard' = emitted'
    /\ delivered' = {}
    /\ UNCHANGED <<engine, evars, lvars, qvars, bBatchSize, bLimit, bItems, bTimer, bRunning,
                   bFlushes, bFut, bWhere, bDrain, bDrainOn>>

\* flush(), up to `await sleep(0)`
BFlushCall ==
    /\ engine = "batch"
    /\ thrown' = "none"
    /\ bDrain = "idle"
    /\ bDrain' = "yield"
    /\ emitted' = {}
    /\ heard' = emitted'
    /\ delivered' = {}
    /\ UNCHANGED <<engine, evars, lvars, qvars, bBatchSize, bLimit, bItems, bTimer, bSuccess,
                   bError, bRunning, bFlushes, bFut, bWhere, bDrainOn>>

\* flush(), one evaluation of `while (this._items.length > 0) await this.run()`
\* followed, when the queue is empty, by stop() and emit("drained")
BFlushStep ==
    /\ engine = "batch"
    /\ thrown' = "none"
    /\ bDrain \in {"yield", "loop"}
    /\ IF Len(bItems) > 0
       THEN LET r == BRunStart(bItems, bRunning, bTimer, bBatchSize)
            IN /\ BApplyRun(r)
               /\ emitted' = r.emits
               /\ heard' = emitted'
               /\ bDrain' = IF Len(r.batch) > 0 THEN "await" ELSE "loop"
               /\ bDrainOn' = r.batch
       ELSE /\ bTimer' = FALSE
            /\ emitted' = BStopEmits(bTimer) \cup {"drained"}
            /\ heard' = emitted'
            /\ bDrain' = "idle"
            /\ bDrainOn' = <<>>
            /\ UNCHANGED <<bItems, bRunning, bFlushes, bWhere>>
    /\ delivered' = {}
    /\ UNCHANGED <<engine, evars, lvars, qvars, bBatchSize, bLimit, bSuccess, bError, bFut>>

\* Every operation of the Batch but add().
BNextButAdd ==
    \/ BRun
    \/ BTick
    \/ BStart
    \/ \E f \in bFlushes : BTimeoutFire(f)
    \/ \E f \in bFlushes : \E res \in Outcomes(Len(f.batch)) : BFnReturn(f, res)
    \/ \E f \in bFlushes, isBatchError \in BOOLEAN : BFnThrow(f, isBatchError)
    \/ BClear
    \/ BDestroy
    \/ BResetMetrics
    \/ BFlushCall
    \/ BFlushStep

\* Every operation of the Batch.
BNext ==
    \/ \E i \in Items, doRun \in BOOLEAN : BAdd(i, doRun)
    \/ BNextButAdd

\* The operations of the Batch when every add is made with doRun = true.
BNextDoRun ==
    \/ \E i \in Items : BAdd(i, TRUE)
    \/ BNextButAdd

\* ===================================================================
\*                               Queue
\* ===================================================================

\* new Queue(process, config), with the configuration drawn from the given sets
QueueInit(types, limits, concurrencies) ==
    /\ qType \in types
    /\ qLimit \in limits
    /\ qConcurrency \in concurrencies
    /\ qItems = <<>>
    /\ qInterval = FALSE
    /\ qProcessing = FALSE
    /\ qPaused = FALSE
    /\ qSuccess = 0
    /\ qError = 0
    /\ qTimeout = 0
    /\ qCycles = {}
    /\ qGuard = [i \in Items |-> "none"]
    /\ qFut = [i \in Items |-> "none"]
    /\ qWhere = [i \in Items |-> "new"]
    /\ qDrain = [at |-> "idle", on |-> <<>>]

\* A dequeue that takes from the end of the queue whatever the type.
Dequeue_FromEnd(items, type, count) ==
    [taken |-> SubSeq(items, Len(items) - count + 1, Len(items)),
     rest |-> SubSeq(items, 1, Len(items) - count)]

\* A dequeue that takes from the head of the queue whatever the type.
Dequeue_FromHead(items, type, count) ==
    [taken |-> SubSeq(items, 1, count),
     rest |-> SubSeq(items, count + 1, Len(items))]

\* dequeue(count): splice(0, count) under fifo, splice(-count, count) under lifo
Dequeue(items, type, count) ==
    IF type = "fifo"
    THEN [taken |-> SubSeq(items, 1, count),
          rest |-> SubSeq(items, count + 1, Len(items))]
    ELSE [taken |-> SubSeq(items, Len(items) - count + 1, Len(items)),
          rest |-> SubSeq(items, 1, Len(items) - count)]

\* A processItems() that does not consult the processing flag.
QProcessStart_IgnoresProcessing(items, processing, paused, type, concurrency) ==
    IF paused \/ Len(items) = 0
    THEN [items |-> items, processing |-> processing, taken |-> <<>>]
    ELSE LET d == Dequeue(items, type, Min(concurrency, Len(items)))
         IN [items |-> d.rest, processing |-> TRUE, taken |-> d.taken]

\* A processItems() that does not consult the paused flag.
QProcessStart_IgnoresPause(items, processing, paused, type, concurrency) ==
    IF processing \/ Len(items) = 0
    THEN [items |-> items, processing |-> processing, taken |-> <<>>]
    ELSE LET d == Dequeue(items, type, Min(concurrency, Len(items)))
         IN [items |-> d.rest, processing |-> TRUE, taken |-> d.taken]

\* processItems(), up to its suspension in `await Promise.allSettled(...)`.
\* Returns the new values of the fields it touches and the items taken.
QProcessStart(items, processing, paused, type, concurrency) ==
    IF processing \/ paused \/ Len(items) = 0
    THEN [items |-> items, processing |-> processing, taken |-> <<>>]
    ELSE LET d == Dequeue(items, type, Min(concurrency, Len(items)))
         IN [items |-> d.rest, processing |-> TRUE, taken |-> d.taken]

\* The in-flight record of a cycle: the items taken and the calls of
\* this.process that have not settled yet.
Cycle(taken) == [taken |-> taken, out |-> Range(taken)]

QApplyStart(r) ==
    /\ qItems' = r.items
    /\ qProcessing' = r.processing
    /\ qCycles' = IF Len(r.taken) = 0 THEN qCycles ELSE qCycles \cup {Cycle(r.taken)}
    /\ qWhere' = [i \in Items |->
                    IF i \in Range(r.taken) THEN "taken" ELSE qWhere[i]]

\* A timeout callback that leaves the item in the queue.
Remove_Nothing(items, i) == items

\* items.indexOf(queueItem) / splice(index, 1)
Remove(items, i) == SelectSeq(items, LAMBDA x : x # i)

\* A promise on which resolve and reject have no effect.
Settle_Never(fut) == fut

\* resolve(...) / reject(...) on the promise of enqueue: only the first call
\* settles it
Settle(fut) == IF fut = "pending" THEN "settled" ELSE fut

\* A clearTimeout that leaves the timer armed.
ClearGuard_Keeps(g) == g

\* clearTimeout on a timer: only an armed timer changes
ClearGuard(g) == IF g = "armed" THEN "off" ELSE g

\* The backpressure test off by one: admits one item beyond the limit.
QFull_OffByOne(items, limit) == Len(items) > limit

\* enqueue(): the backpressure test, this._items.length >= this.config.limit
QFull(items, limit) == Len(items) >= limit

\* enqueue(item)
QEnqueue(i) ==
    /\ engine = "queue"
    /\ thrown' = "none"
    /\ qWhere[i] = "new"
    /\ \A j \in Items : j < i => qWhere[j] # "new"
    /\ IF QFull(qItems, qLimit)
       THEN /\ emitted' = {"full"}
            /\ heard' = emitted'
            /\ delivered' = {<<i, "rej_full">>}
            /\ UNCHANGED <<qItems, qGuard, qFut, qWhere>>
       ELSE /\ emitted' = {}
            /\ heard' = emitted'
            /\ delivered' = {}
            /\ qItems' = Append(qItems, i)
            /\ qGuard' = [qGuard EXCEPT ![i] = "armed"]
            /\ qFut' = [qFut EXCEPT ![i] = "pending"]
            /\ qWhere' = [qWhere EXCEPT ![i] = "queued"]
    /\ UNCHANGED <<engine, evars, lvars, bvars, qType, qLimit, qConcurrency, qInterval,
                   qProcessing, qPaused, qSuccess, qError, qTimeout, qCycles, qDrain>>

\* An init() that never refuses.
QInitRefuses_Never(interval) == FALSE

\* init(): if (this.interval) throw new QueueError("Queue already initialized")
QInitRefuses(interval) == interval

\* init(): throws if the interval timer is set, sets it otherwise
QInit ==
    /\ engine = "queue"
    /\ IF QInitRefuses(qInterval)
       THEN thrown' = "already_initialized" /\ UNCHANGED qInterval
       ELSE thrown' = "none" /\ qInterval' = TRUE
    /\ emitted' = {}
    /\ heard' = emitted'
    /\ delivered' = {}
    /\ UNCHANGED <<engine, evars, lvars, bvars, qType, qLimit, qConcurrency, qItems,
                   qProcessing, qPaused, qSuccess, qError, qTimeout, qCycles,
                   qGuard, qFut, qWhere, qDrain>>

\* the setInterval callback installed by init(): processItems()
QTick ==
    /\ engine = "queue"
    /\ thrown' = "none"
    /\ qInterval
    /\ LET r == QProcessStart(qItems, qProcessing, qPaused, qType, qConcurrency)
       IN /\ QApplyStart(r)
    /\ emitted' = {}
    /\ heard' = emitted'
    /\ delivered' = {}
    /\ UNCHANGED <<engine, evars, lvars, bvars, qType, qLimit, qConcurrency, qInterval,
                   qPaused, qSuccess, qError, qTimeout, qGuard, qFut,
                   qDrain>>

\* processItems(): one call of this.process settles, with a value (ok) or
\* an exception; the try or the catch branch of the item's callback runs
\* A per-item callback that resolves the caller also when process threw.
QProcOutcome_Resolves(ok) == "res"

\* the per-item callback of processItems: queueItem.res(result) after process
\* returned, queueItem.rej(error) in the catch block
QProcOutcome(ok) == IF ok THEN "res" ELSE "rej_thrown"

QProcSettle(c, i, ok) ==
    /\ engine = "queue"
    /\ thrown' = "none"
    /\ c \in qCycles
    /\ i \in c.out
    /\ qGuard' = [qGuard EXCEPT ![i] = ClearGuard(qGuard[i])]
    /\ qSuccess' = IF ok THEN qSuccess + 1 ELSE qSuccess
    /\ qError' = IF ok THEN qError ELSE qError + 1
    /\ qFut' = [qFut EXCEPT ![i] = Settle(qFut[i])]
    /\ delivered' = {<<i, QProcOutcome(ok)>>}
    /\ emitted' = {IF ok THEN "processed" ELSE "error"}
    /\ heard' = emitted'
    /\ qCycles' = (qCycles \ {c}) \cup {[c EXCEPT !.out = c.out \ {i}]}
    /\ UNCHANGED <<engine, evars, lvars, bvars, qType, qLimit, qConcurrency, qItems,
                   qInterval, qProcessing, qPaused, qTimeout, qWhere, qDrain>>

\* processItems(), resumed after Promise.allSettled: the empty check and
\* the finally block
QCycleEnd(c) ==
    /\ engine = "queue"
    /\ thrown' = "none"
    /\ c \in qCycles
    /\ c.out = {}
    /\ qCycles' = qCycles \ {c}
    /\ qProcessing' = FALSE
    /\ emitted' = IF Len(qItems) = 0 THEN {"empty"} ELSE {}
    /\ heard' = emitted'
    /\ delivered' = {}
    /\ qDrain' = IF qDrain.at = "await" /\ qDrain.on = c.taken
                 THEN [at |-> "sleep", on |-> <<>>] ELSE qDrain
    /\ UNCHANGED <<engine, evars, lvars, bvars, qType, qLimit, qConcurrency, qItems,
                   qInterval, qPaused, qSuccess, qError, qTimeout, qGuard,
                   qFut, qWhere>>

\* the setTimeout callback armed by enqueue fires
QTimeoutFire(i) ==
    /\ engine = "queue"
    /\ thrown' = "none"
    /\ qGuard[i] = "armed"
    /\ qGuard' = [qGuard EXCEPT ![i] = "off"]
    /\ qItems' = Remove(qItems, i)
    /\ qWhere' = [qWhere EXCEPT ![i] = IF qWhere[i] = "queued" THEN "gone"
                                        ELSE qWhere[i]]
    /\ qTimeout' = qTimeout + 1
    /\ emitted' = {"timeout"}
    /\ heard' = emitted'
    /\ qFut' = [qFut EXCEPT ![i] = Settle(qFut[i])]
    /\ delivered' = {<<i, "rej_qtimeout">>}
    /\ UNCHANGED <<engine, evars, lvars, bvars, qType, qLimit, qConcurrency, qInterval,
                   qProcessing, qPaused, qSuccess, qError, qCycles, qDrain>>

\* pause()
QPause ==
    /\ engine = "queue"
    /\ thrown' = "none"
    /\ qPaused' = TRUE
    /\ emitted' = IF qPaused THEN {} ELSE {"paused"}
    /\ heard' = emitted'
    /\ delivered' = {}
    /\ UNCHANGED <<engine, evars, lvars, bvars, qType, qLimit, qConcurrency, qItems,
                   qInterval, qProcessing, qSuccess, qError, qTimeout, qCycles,
                   qGuard, qFut, qWhere, qDrain>>

\* resume()
QResume ==
    /\ engine = "queue"
    /\ thrown' = "none"
    /\ qPaused' = FALSE
    /\ emitted' = IF qPaused THEN {"resumed"} ELSE {}
    /\ heard' = emitted'
    /\ delivered' = {}
    /\ UNCHANGED <<engine, evars, lvars, bvars, qType, qLimit, qConcurrency, qItems,
                   qInterval, qProcessing, qSuccess, qError, qTimeout, qCycles,
                   qGuard, qFut, qWhere, qDrain>>

\* stop()
QStop ==
    /\ engine = "queue"
    /\ thrown' = "none"
    /\ qInterval' = FALSE
    /\ qProcessing' = FALSE
    /\ qPaused' = FALSE
    /\ emitted' = {}
    /\ heard' = emitted'
    /\ delivered' = {}
    /\ UNCHANGED <<engine, evars, lvars, bvars, qType, qLimit, qConcurrency, qItems,
                   qSuccess, qError, qTimeout, qCycles, qGuard, qFut,
                   qWhere, qDrain>>

\* A clear that rejects the items but leaves their timers armed.
QClearBody_KeepsGuards(rejectPending) ==
    /\ qItems' = <<>>
    /\ qWhere' = [i \in Items |->
                    IF qWhere[i] = "queued" THEN "gone" ELSE qWhere[i]]
    /\ qGuard' = qGuard
    /\ qFut' = [i \in Items |->
                  IF rejectPending /\ i \in Range(qItems)
                  THEN Settle(qFut[i]) ELSE qFut[i]]
    /\ delivered' = IF rejectPending THEN Deliver(qItems, "rej_cleared") ELSE {}

\* clear(rejectPending): the effect on the queued items
QClearBody(rejectPending) ==
    /\ qItems' = <<>>
    /\ qWhere' = [i \in Items |->
                    IF qWhere[i] = "queued" THEN "gone" ELSE qWhere[i]]
    /\ qGuard' = [i \in Items |->
                    IF rejectPending /\ i \in Range(qItems)
                    THEN ClearGuard(qGuard[i]) ELSE qGuard[i]]
    /\ qFut' = [i \in Items |->
                  IF rejectPending /\ i \in Range(qItems)
                  THEN Settle(qFut[i]) ELSE qFut[i]]
    /\ delivered' = IF rejectPending THEN Deliver(qItems, "rej_cleared") ELSE {}

\* clear(rejectPending)
QClear(rejectPending) ==
    /\ engine = "queue"
    /\ thrown' = "none"
    /\ QClearBody(rejectPending)
    /\ emitted' = {"drained"}
    /\ heard' = emitted'
    /\ UNCHANGED <<engine, evars, lvars, bvars, qType, qLimit, qConcurrency, qInterval,
                   qProcessing, qPaused, qSuccess, qError, qTimeout, qCycles,
                   qDrain>>

\* destroy(): stop(), clear(true), destroyEvents(), emit('destroyed')
QDestroy ==
    /\ engine = "queue"
    /\ thrown' = "none"
    /\ qInterval' = FALSE
    /\ qProcessing' = FALSE
    /\ qPaused' = FALSE
    /\ QClearBody(TRUE)
    /\ LET calls == <<"drained", "destroyEvents", "destroyed">>
       IN /\ emitted' = Range(calls)
          /\ heard' = Heard(calls)
    /\ UNCHANGED <<engine, evars, lvars, bvars, qType, qLimit, qConcurrency, qSuccess,
                   qError, qTimeout, qCycles, qDrain>>

\* flush(), up to `await sleep(0)`
QFlushCall ==
    /\ engine = "queue"
    /\ thrown' = "none"
    /\ qDrain.at = "idle"
    /\ qDrain' = [at |-> "yield", on |-> <<>>]
    /\ emitted' = {}
    /\ heard' = emitted'
    /\ delivered' = {}
    /\ UNCHANGED <<engine, evars, lvars, bvars, qType, qLimit, qConcurrency, qItems,
                   qInterval, qProcessing, qPaused, qSuccess, qError, qTimeout,
                   qCycles, qGuard, qFut, qWhere>>

\* A flush() that does not call stop().
QStopped_Not(first, flag) == flag

\* flush(): the value of interval !== null, _processing or _paused after the
\* stop() that flush() calls when it resumes from its first sleep
QStopped(first, flag) == IF first THEN FALSE ELSE flag

\* flush(), resumed after a sleep: stop() after the first one, then one
\* evaluation of `while (this._items.length > 0) await this.processItems()`
QFlushStep ==
    /\ engine = "queue"
    /\ thrown' = "none"
    /\ qDrain.at \in {"yield", "sleep"}
    /\ LET first == qDrain.at = "yield"
           processing == QStopped(first, qProcessing)
           paused == QStopped(first, qPaused)
       IN /\ qInterval' = QStopped(first, qInterval)
          /\ qPaused' = paused
          /\ IF Len(qItems) > 0
             THEN LET r == QProcessStart(qItems, processing, paused, qType,
                                         qConcurrency)
                  IN /\ QApplyStart(r)
                     /\ qDrain' = IF Len(r.taken) > 0
                                  THEN [at |-> "await", on |-> r.taken]
                                  ELSE [at |-> "sleep", on |-> <<>>]
                     /\ emitted' = {}
                     /\ heard' = emitted'
             ELSE /\ qProcessing' = processing
                  /\ qDrain' = [at |-> "idle", on |-> <<>>]
                  /\ emitted' = {"drained"}
                  /\ heard' = emitted'
                  /\ UNCHANGED <<qItems, qCycles, qWhere>>
    /\ delivered' = {}
    /\ UNCHANGED <<engine, evars, lvars, bvars, qType, qLimit, qConcurrency, qSuccess,
                   qError, qTimeout, qGuard, qFut>>

\* Every operation of the Queue but pause() and resetStats().
QNextButPause ==
    \/ \E i \in Items : QEnqueue(i)
    \/ QInit
    \/ QTick
    \/ \E c \in qCycles : \E i \in c.out, ok \in BOOLEAN : QProcSettle(c, i, ok)
    \/ \E c \in qCycles : QCycleEnd(c)
    \/ \E i \in Items : QTimeoutFire(i)
    \/ QResume
    \/ QStop
    \/ \E rejectPending \in BOOLEAN : QClear(rejectPending)
    \/ QDestroy
    \/ QFlushCall
    \/ QFlushStep

\* Every operation of the Queue but resetStats().
QNext == QNextButPause \/ QPause

\* ===================================================================
\*          Event emitters (event-emitter.ts), one event name
\* ===================================================================
\* SimpleEventEmitter, EventEmitter and ComplexEventEmitter share the code
\* of on, off, emit, once and destroyEvents word for word; they differ in
\* the types of the event name and of the payload only.  A listener is a
\* function the user wrote: eKind says how it was registered, eThrows
\* whether it throws when it is invoked.  No onceListen hook is registered.

Listeners == 1..MaxListeners

\* off(event, listener): listeners.splice(listeners.indexOf(listener), 1).
Splice(arr, l) == SelectSeq(arr, LAMBDA x : x # l)

\* emit wraps every listener call in try/catch and logs the exception.
EmitCatches_Never == FALSE

EmitCatches == TRUE

\* One call of an array element by emit.  A listener registered with on is
\* called directly.  A listener registered with once sits in the array as
\* the wrapper `(data) => { listener(data); this.off(event, onceListener) }`:
\* the off is reached only when listener(data) returns.
CallListener(arr, l, kind, throws) ==
    IF throws
    THEN [arr |-> arr, threw |-> TRUE]
    ELSE [arr |-> IF kind = "once" THEN Splice(arr, l) ELSE arr,
          threw |-> FALSE]

\* `for (const listener of listeners)`: the array iterator reads
\* listeners[k] while k is below the CURRENT length of the array, which
\* the once wrappers splice during the iteration.
RECURSIVE EmitLoop(_, _, _, _, _)
EmitLoop(arr, k, invoked, kinds, throws) ==
    IF k > Len(arr)
    THEN [arr |-> arr, invoked |-> invoked, propagated |-> FALSE]
    ELSE LET l == arr[k]
             c == CallListener(arr, l, kinds[l], throws[l])
         IN IF c.threw /\ ~EmitCatches
            THEN [arr |-> c.arr, invoked |-> Append(invoked, l),
                  propagated |-> TRUE]
            ELSE EmitLoop(c.arr, k + 1, Append(invoked, l), kinds, throws)

EmitterInit ==
    /\ eListeners = <<>>
    /\ eKind = [l \in Listeners |-> "none"]
    /\ eThrows = [l \in Listeners |-> FALSE]
    /\ eCalls = [l \in Listeners |-> 0]
    /\ eLast = [start |-> <<>>, invoked |-> <<>>, returned |-> 0]

\* on(event, listener) with a function that was not registered before.
EOn(l, throws) ==
    /\ engine = "emitter"
    /\ thrown' = "none"
    /\ eKind[l] = "none"
    /\ eListeners' = Append(eListeners, l)
    /\ eKind' = [eKind EXCEPT ![l] = "on"]
    /\ eThrows' = [eThrows EXCEPT ![l] = throws]
    /\ emitted' = {}
    /\ heard' = emitted'
    /\ delivered' = {}
    /\ UNCHANGED <<engine, bvars, qvars, lvars, eCalls, eLast>>

\* once(event, listener): on(event, onceListener).
EOnce(l, throws) ==
    /\ engine = "emitter"
    /\ thrown' = "none"
    /\ eKind[l] = "none"
    /\ eListeners' = Append(eListeners, l)
    /\ eKind' = [eKind EXCEPT ![l] = "once"]
    /\ eThrows' = [eThrows EXCEPT ![l] = throws]
    /\ emitted' = {}
    /\ heard' = emitted'
    /\ delivered' = {}
    /\ UNCHANGED <<engine, bvars, qvars, lvars, eCalls, eLast>>

\* off(event, listener), or the unregister function on/once returned, for
\* a listener that is in the array (index !== -1; else nothing changes).
EOff(l) ==
    /\ engine = "emitter"
    /\ thrown' = "none"
    /\ l \in Range(eListeners)
    /\ eListeners' = Splice(eListeners, l)
    /\ emitted' = {}
    /\ heard' = emitted'
    /\ delivered' = {}
    /\ UNCHANGED <<engine, bvars, qvars, lvars, eKind, eThrows, eCalls, eLast>>

\* off(event): events.delete(event).
EOffAll ==
    /\ engine = "emitter"
    /\ thrown' = "none"
    /\ eListeners' = <<>>
    /\ emitted' = {}
    /\ heard' = emitted'
    /\ delivered' = {}
    /\ UNCHANGED <<engine, bvars, qvars, lvars, eKind, eThrows, eCalls, eLast>>

\* destroyEvents(): events.clear().
EDestroyEvents ==
    /\ engine = "emitter"
    /\ thrown' = "none"
    /\ eListeners' = <<>>
    /\ emitted' = {}
    /\ heard' = emitted'
    /\ delivered' = {}
    /\ UNCHANGED <<engine, bvars, qvars, lvars, eKind, eThrows, eCalls, eLast>>

\* emit(event, data): the loop over the array, then `return listeners.length`.
EEmit ==
    /\ engine = "emitter"
    /\ \A l \in Range(eListeners) : eCalls[l] < MaxCalls
    /\ LET r == EmitLoop(eListeners, 1, <<>>, eKind, eThrows)
       IN /\ thrown' = IF r.propagated THEN "listener_error" ELSE "none"
          /\ eListeners' = r.arr
          /\ eCalls' = [l \in Listeners |->
                          eCalls[l] + Cardinality({k \in 1..Len(r.invoked) :
                                                      r.invoked[k] = l})]
          /\ eLast' = [start |-> eListeners, invoked |-> r.invoked,
                       returned |-> IF r.propagated THEN 0 ELSE Len(r.arr)]
    /\ emitted' = {}
    /\ heard' = emitted'
    /\ delivered' = {}
    /\ UNCHANGED <<engine, bvars, qvars, lvars, eKind, eThrows>>

ENext ==
    \/ \E l \in Listeners, throws \in BOOLEAN : EOn(l, throws)
    \/ \E l \in Listeners, throws \in BOOLEAN : EOnce(l, throws)
    \/ \E l \in Listeners : EOff(l)
    \/ EOffAll
    \/ EDestroyEvents
    \/ EEmit

\* ===================================================================
\*                          Loop (loop.ts)
\* ===================================================================
\* Every call of start() is a run; lRun[r] is where run r is suspended:
\* "new" (not called yet), "stopping" (in `await this.stop()`, that is in
\* stop's `await sleep(0)`), "fn" (in `await this.fn(i)`), "sleep" (in the
\* `await sleep(...)` of the loop body), "done" (start returned or threw).

Runs == 1..MaxRuns

LoopInit ==
    /\ lRunning = FALSE
    /\ lRun = [r \in Runs |-> "new"]
    /\ lTick = [r \in Runs |-> 0]

\* The head of the while loop in run r: `while (this._running) { await
\* this.fn(i); ...`.
LWhile(r, running) ==
    IF running
    THEN /\ lRun' = [lRun EXCEPT ![r] = "fn"]
    ELSE /\ lRun' = [lRun EXCEPT ![r] = "done"]

\* start(), up to its first await.
LStart(r) ==
    /\ engine = "loop"
    /\ thrown' = "none"
    /\ lRun[r] = "new"
    /\ IF lRunning
       THEN \* await this.stop(): _running = false, emit('stop'), await sleep(0)
            /\ lRunning' = FALSE
            /\ lRun' = [lRun EXCEPT ![r] = "stopping"]
            /\ emitted' = {"stop"}
            /\ heard' = emitted'
       ELSE /\ lRunning' = TRUE
            /\ LWhile(r, TRUE)
            /\ emitted' = {"start"}
            /\ heard' = emitted'
    /\ delivered' = {}
    /\ UNCHANGED <<engine, bvars, qvars, evars, lTick>>

\* The sleep(0) of stop() elapses in run r: stop() returns and start()
\* goes on with `this._running = true; this.emit('start')` and the loop.
LStopWake(r) ==
    /\ engine = "loop"
    /\ thrown' = "none"
    /\ lRun[r] = "stopping"
    /\ lRunning' = TRUE
    /\ LWhile(r, TRUE)
    /\ emitted' = {"start"}
    /\ heard' = emitted'
    /\ delivered' = {}
    /\ UNCHANGED <<engine, bvars, qvars, evars, lTick>>

\* fn(i) settles in run r: i++, then the sleep until the next interval.
LFnReturn(r) ==
    /\ engine = "loop"
    /\ thrown' = "none"
    /\ lRun[r] = "fn"
    /\ lTick[r] < MaxTicks
    /\ lTick' = [lTick EXCEPT ![r] = @ + 1]
    /\ lRun' = [lRun EXCEPT ![r] = "sleep"]
    /\ emitted' = {}
    /\ heard' = emitted'
    /\ delivered' = {}
    /\ UNCHANGED <<engine, bvars, qvars, evars, lRunning>>

\* fn(i) throws or rejects in run r: start() rejects, _running stays.
LFnThrow(r) ==
    /\ engine = "loop"
    /\ thrown' = "none"
    /\ lRun[r] = "fn"
    /\ lRun' = [lRun EXCEPT ![r] = "done"]
    /\ emitted' = {}
    /\ heard' = emitted'
    /\ delivered' = {}
    /\ UNCHANGED <<engine, bvars, qvars, evars, lRunning, lTick>>

\* The sleep of the loop body elapses in run r: back to the loop head.
LSleepWake(r) ==
    /\ engine = "loop"
    /\ thrown' = "none"
    /\ lRun[r] = "sleep"
    /\ LWhile(r, lRunning)
    /\ emitted' = {}
    /\ heard' = emitted'
    /\ delivered' = {}
    /\ UNCHANGED <<engine, bvars, qvars, evars, lRunning, lTick>>

\* stop() called by the user; its sleep(0) delays the caller only.
LStop ==
    /\ engine = "loop"
    /\ thrown' = "none"
    /\ IF lRunning
       THEN /\ lRunning' = FALSE
            /\ emitted' = {"stop"}
            /\ heard' = emitted'
       ELSE /\ emitted' = {}
            /\ heard' = emitted'
            /\ UNCHANGED lRunning
    /\ delivered' = {}
    /\ UNCHANGED <<engine, bvars, qvars, evars, lRun, lTick>>

LNext ==
    \/ \E r \in Runs : LStart(r)
    \/ \E r \in Runs : LStopWake(r)
    \/ \E r \in Runs : LFnReturn(r)
    \/ \E r \in Runs : LFnThrow(r)
    \/ \E r \in Runs : LSleepWake(r)
    \/ LStop

\* ===================================================================
\*                          Specifications
\* ===================================================================

\* A Batch instance under every configuration within the bounds.
InitBatch ==
    /\ engine = "batch"
    /\ emitted = {}
    /\ heard = {}
    /\ delivered = {}
    /\ thrown = "none"
    /\ BatchInit(1..MaxBatchSize, 1..MaxLimit)
    /\ QueueInit({"fifo"}, {1}, {1})
    /\ EmitterInit
    /\ LoopInit

\* A Queue instance under every configuration within the bounds.
InitQueue ==
    /\ engine = "queue"
    /\ emitted = {}
    /\ heard = {}
    /\ delivered = {}
    /\ thrown = "none"
    /\ BatchInit({1}, {1})
    /\ QueueInit({"fifo", "lifo"}, 1..MaxLimit, 1..MaxConcurrency)
    /\ EmitterInit
    /\ LoopInit

\* An event emitter with no listener.
InitEmitter ==
    /\ engine = "emitter"
    /\ emitted = {}
    /\ heard = {}
    /\ delivered = {}
    /\ thrown = "none"
    /\ BatchInit({1}, {1})
    /\ QueueInit({"fifo"}, {1}, {1})
    /\ EmitterInit
    /\ LoopInit

\* A Loop that was never started.
InitLoop ==
    /\ engine = "loop"
    /\ emitted = {}
    /\ heard = {}
    /\ delivered = {}
    /\ thrown = "none"
    /\ BatchInit({1}, {1})
    /\ QueueInit({"fifo"}, {1}, {1})
    /\ EmitterInit
    /\ LoopInit

Init == InitBatch \/ InitQueue \/ InitEmitter \/ InitLoop

Next == BNext \/ QNext \/ ENext \/ LNext

\* Either engine.
Spec == Init /\ [][Next]_vars

\* The Batch engine alone.
SpecBatch == InitBatch /\ [][BNext]_vars

\* The Queue engine alone.
SpecQueue == InitQueue /\ [][QNext]_vars

\* One event emitter.
SpecEmitter == InitEmitter /\ [][ENext]_vars

\* One Loop.
SpecLoop == InitLoop /\ [][LNext]_vars

\* An outstanding invocation of fn settles, or its timeout guard fires.
BSettleOrTimeout ==
    \E f \in bFlushes :
        \/ BTimeoutFire(f)
        \/ BFnThrow(f, TRUE)
        \/ BFnThrow(f, FALSE)
        \/ \E res \in Outcomes(Len(f.batch)) : BFnReturn(f, res)

\* The Batch engine with its timers firing: an active interval timer keeps
\* ticking, and every invocation of fn settles or is timed out.
SpecBatchLive ==
    InitBatch /\ [][BNext]_vars /\ WF_vars(BTick) /\ WF_vars(BSettleOrTimeout)

\* The Batch engine with every add made with doRun = true.
SpecBatchDoRun == InitBatch /\ [][BNextDoRun]_vars

\* An outstanding invocation of fn settles, or its timeout guard fires, by a
\* callback of the event loop: none runs while flush() spins on microtasks.
BSettleByEventLoop == ~BSpinning /\ BSettleOrTimeout

\* The Batch engine during a flush(): the continuations of flush() run, and
\* every invocation of fn settles or is timed out as soon as the event loop
\* gets to run its callbacks.
SpecBatchDrain ==
    /\ InitBatch
    /\ [][BNext]_vars
    /\ WF_vars(BFlushStep)
    /\ WF_vars(BSettleByEventLoop)

\* An outstanding call of the processing function settles.
QSettleSome ==
    \E c \in qCycles : \E i \in c.out, ok \in BOOLEAN : QProcSettle(c, i, ok)

\* A cycle whose calls have all settled resumes.
QCycleEndSome == \E c \in qCycles : QCycleEnd(c)

\* pause(), called while no flush() call is past its stop()
QPauseOutsideFlush == qDrain.at \in {"idle", "yield"} /\ QPause

\* The operations of the Queue when nobody pauses it under a running flush().
QNextLive == QNextButPause \/ QPauseOutsideFlush

\* The Queue engine during a flush(): the sleeps of flush() expire, every
\* call of the processing function settles, a cycle resumes once its calls
\* have settled, and nobody pauses the queue while flush() runs.
SpecQueueLive ==
    /\ InitQueue
    /\ [][QNextLive]_vars
    /\ WF_vars(QFlushStep)
    /\ WF_vars(QSettleSome)
    /\ WF_vars(QCycleEndSome)

\* ===================================================================
\*                             Properties
\* ===================================================================

\* C1: Batch: the number of queued items never exceeds config.limit, and an
\* add() made while the queue holds limit items or more fails with the limit
\* BatchError and leaves the queue as it was.
C1_BatchBounded ==
    /\ [](Len(bItems) <= bLimit)
    /\ [][\A i \in Items, doRun \in BOOLEAN :
            (BAdd(i, doRun) /\ Len(bItems) >= bLimit)
            => /\ bItems' = bItems
               /\ delivered' = {<<i, "rej_limit">>}
               /\ bFut'[i] = "none"]_vars

\* C1 witness: the queue is at its limit and the add just made was refused.
C1_Witness ==
    /\ engine = "batch"
    /\ Len(bItems) = bLimit
    /\ \E i \in Items : delivered = {<<i, "rej_limit">>} /\ bFut[i] = "none"

\* C2: Queue: the number of queued items never exceeds config.limit, and an
\* enqueue() made while the queue holds limit items or more fails with the
\* 'Queue is full' QueueError, appends nothing and arms no timeout guard.
C2_QueueBounded ==
    /\ [](Len(qItems) <= qLimit)
    /\ [][\A i \in Items :
            (QEnqueue(i) /\ Len(qItems) >= qLimit)
            => /\ qItems' = qItems
               /\ delivered' = {<<i, "rej_full">>}
               /\ qGuard' = qGuard
               /\ qFut'[i] = "none"]_vars

\* C2 witness: the queue is at its limit and the enqueue just made was refused
\* without arming a guard.
C2_Witness ==
    /\ engine = "queue"
    /\ Len(qItems) = qLimit
    /\ \E i \in Items : delivered = {<<i, "rej_full">>} /\ qGuard[i] = "none"

\* C3: Batch: at most one flush is in flight: at most one invocation of the
\* external batch function is outstanding, over any interleaving of adds,
\* ticks, run()/flush() calls and timeout-guard firings.
C3_SingleFlight == Cardinality(bFlushes) <= 1

\* C4: Queue: at most one processing cycle is in flight: no cycle takes items
\* while calls of the processing function made by an earlier cycle are still
\* outstanding.
C4_SingleCycle == Cardinality({c \in qCycles : c.out # {}}) <= 1

\* C5 as stated: every admitted item has its future settled in its lifetime,
\* the items queued at clear()/destroy() included.  In a finite run: an item
\* that has left the engine without being handed to the processing function,
\* and that no timeout guard refers to any more, has its future settled.
C5_SettledWhenRemoved ==
    \A i \in Items :
        /\ bWhere[i] = "gone" => bFut[i] = "settled"
        /\ (qWhere[i] = "gone" /\ qGuard[i] # "armed") => qFut[i] = "settled"

\* C5, amended: a pending future of the Queue always has its timeout guard
\* armed, and a pending future of a Batch item handed to fn always has the
\* timeout guard of its flush armed; the firing of either guard, the return
\* or failure of fn, clear(true) and destroy() of the Queue settle the futures
\* they reach.  clear() and destroy() of the Batch settle nothing: the items
\* they remove from the queue keep a pending future for ever.
C5_SettledUnlessBatchCleared ==
    /\ [](\A i \in Items : qFut[i] = "pending" => qGuard[i] = "armed")
    /\ [](\A i \in Items :
            (bFut[i] = "pending" /\ bWhere[i] = "taken")
            => \E f \in bFlushes : f.guard = "armed" /\ i \in Range(f.batch))
    /\ [][\A i \in Items :
            QTimeoutFire(i) => qFut'[i] = "settled"]_vars
    /\ [][(QClear(TRUE) \/ QDestroy)
            => \A i \in Range(qItems) : qFut'[i] = "settled"]_vars
    /\ [][\A f \in bFlushes :
            (BTimeoutFire(f) \/ BFnThrow(f, TRUE) \/ BFnThrow(f, FALSE)
               \/ \E res \in Outcomes(Len(f.batch)) : BFnReturn(f, res))
            => \A i \in Range(f.batch) : bFut'[i] = "settled"]_vars
    /\ [][(BClear \/ BDestroy)
            => \A i \in Range(bItems) :
                  bWhere'[i] = "gone" /\ bFut'[i] = bFut[i]]_vars
    /\ [][\A i \in Items :
            (bWhere[i] = "gone" /\ bFut[i] = "pending")
            => (bWhere'[i] = "gone" /\ bFut'[i] = "pending")]_vars

\* C5 witness: a Batch was cleared while one item was queued and another had
\* been settled; the cleared item's future is pending.
C5_Witness ==
    /\ engine = "batch"
    /\ "drained" \in emitted
    /\ \E i, j \in Items :
          /\ bWhere[i] = "gone" /\ bFut[i] = "pending"
          /\ bWhere[j] = "taken" /\ bFut[j] = "settled"

\* C6: the engine invokes a resolver or rejecter only of an item whose future
\* is still pending: no callback of an admitted item is invoked after its
\* future was settled.  (The refusal of an admission settles no item's future.)
C6_SettledOnce ==
    [][\A d \in delivered' :
          d[2] \notin {"rej_limit", "rej_full"}
          => /\ engine = "batch" => bFut[d[1]] = "pending"
             /\ engine = "queue" => qFut[d[1]] = "pending"]_vars

\* C7: Batch: when the timeout guard of a flush fires first, the running flag
\* is cleared and every taken item is rejected with the timeout error; when
\* the abandoned call settles later, neither counter nor the running flag
\* changes and no data, empty or error event is emitted.
C7_AbandonedHasNoEffect ==
    /\ [][\A f \in bFlushes :
            BTimeoutFire(f)
            => ~bRunning' /\ delivered' = Deliver(f.batch, "rej_timeout")]_vars
    /\ [][\A f \in bFlushes :
            (/\ f.guard = "fired"
             /\ \/ BFnThrow(f, TRUE)
                \/ BFnThrow(f, FALSE)
                \/ \E res \in Outcomes(Len(f.batch)) : BFnReturn(f, res))
            => /\ UNCHANGED <<bSuccess, bError, bRunning>>
               /\ emitted' \cap {"data", "empty", "error"} = {}]_vars

\* C8: Batch: an add(item, doRun = true) that is admitted, brings the queue
\* length to batchSize or more and finds no flush running starts a flush
\* within the call: the running flag is set, the first batchSize items of the
\* queue are removed from it and handed to fn in one invocation.
C8_ImmediateFlush ==
    [][\A i \in Items :
          (/\ BAdd(i, TRUE)
           /\ Len(bItems) < bLimit
           /\ Len(bItems) + 1 >= bBatchSize
           /\ ~bRunning)
          => LET pushed == Append(bItems, i)
             IN /\ bRunning'
                /\ \E f \in bFlushes' \ bFlushes :
                      /\ f.guard = "armed"
                      /\ Len(f.batch) = bBatchSize
                      /\ \A k \in 1..bBatchSize : f.batch[k] = pushed[k]
                /\ Len(bItems') = Len(pushed) - bBatchSize
                /\ \A k \in 1..Len(bItems') : bItems'[k] = pushed[bBatchSize + k]
                /\ \A k \in 1..bBatchSize : bWhere'[pushed[k]] = "taken"]_vars

\* C8 witness: the second add filled a batch of two, which is in flight with
\* both futures pending.
C8_Witness ==
    /\ engine = "batch"
    /\ bBatchSize = 2
    /\ bRunning
    /\ bFlushes = {Flush(<<1, 2>>)}
    /\ delivered = {}
    /\ \A i \in {1, 2} : bFut[i] = "pending"

\* C9: Batch: an add(item, doRun = true) that leaves fewer than batchSize items
\* queued leaves the timer active with the item queued; and an item queued
\* while the timer is active is eventually handed to fn (or dropped by
\* clear()/destroy(), which stop the timer), given that the timer keeps ticking and
\* that every invocation of fn settles or is timed out.
C9_FlushedByTimer ==
    /\ [][\A i \in Items :
            (/\ BAdd(i, TRUE)
             /\ Len(bItems) < bLimit
             /\ Len(bItems) + 1 < bBatchSize)
            => bTimer' /\ bWhere'[i] = "queued" /\ bFlushes' = bFlushes]_vars
    /\ \A i \in Items :
          (bWhere[i] = "queued" /\ bTimer) ~> (bWhere[i] \in {"taken", "gone"})

\* C9 witness: the single item of a Batch of batchSize 2, added below the
\* size trigger, was handed to fn by a later run; the run emptied the queue and
\* stopped the timer the add had started.
C9_Witness ==
    /\ engine = "batch"
    /\ bBatchSize = 2
    /\ bFlushes = {Flush(<<1>>)}
    /\ bWhere[1] = "taken"
    /\ emitted = {"stop"}
    /\ ~bTimer

C11_MismatchRejectsAll ==
    [][\A f \in bFlushes : \A res \in Outcomes(Len(f.batch)) :
          (BFnReturn(f, res) /\ Len(res) # Len(f.batch))
          => /\ delivered' = {<<f.batch[k], "rej_mismatch">> : k \in 1..Len(f.batch)}
             /\ bError' = bError + Len(f.batch)
             /\ bSuccess' = bSuccess
             /\ \A k \in 1..Len(f.batch) : bFut'[f.batch[k]] = "settled"
             /\ f.guard = "armed"
                  => \A k \in 1..Len(f.batch) : bFut[f.batch[k]] = "pending"]_vars

\* C11 witness: a flush of two items got a list of another length back: both
\* rejecters were invoked and errorCount is 2.
C11_Witness ==
    /\ engine = "batch"
    /\ delivered = {<<1, "rej_mismatch">>, <<2, "rej_mismatch">>}
    /\ bError = 2
    /\ bSuccess = 0
    /\ bFut[1] = "settled" /\ bFut[2] = "settled"

C13_NoAdmissionAfterDestroy ==
    [][("destroyEvents" \in emitted)
       => /\ \A i \in Items, doRun \in BOOLEAN :
                BAdd(i, doRun)
                => /\ \E d \in delivered' : d[1] = i
                   /\ bFut'[i] = "none"
                   /\ bItems' = <<>>
                   /\ ~bTimer'
                   /\ bFlushes' = bFlushes
          /\ \A i \in Items :
                QEnqueue(i)
                => /\ \E d \in delivered' : d[1] = i
                   /\ qFut'[i] = "none"
                   /\ qItems' = <<>>
                   /\ qGuard'[i] = "none"]_vars

\* C14: in the state destroy() leaves, whatever the state it was called in,
\* the queue is empty and no periodic scheduler is active: the Batch has no
\* interval timer (stats.isTimerActive false), the Queue has no interval
\* (initialized false).
C14_DestroyLeavesIdle ==
    [][/\ BDestroy => (Len(bItems') = 0 /\ ~bTimer')
       /\ QDestroy => (Len(qItems') = 0 /\ ~qInterval')]_vars

\* C14 witness: destroy() was called on a Batch whose timer was active (it
\* emitted "stop") and that held a queued item; the queue is empty and the
\* timer is off.
C14_Witness ==
    /\ engine = "batch"
    /\ {"stop", "destroyEvents"} \subseteq emitted
    /\ \E i \in Items : bWhere[i] = "gone"
    /\ Len(bItems) = 0
    /\ ~bTimer

\* C15: Queue: when the timeout guard of an item fires while the item is still
\* queued, the item is removed from the queue (the others keep their order),
\* its pending future is rejected with the timeout error and with nothing
\* else, timeoutCount grows by one and the other counters do not change; an
\* item removed from the queue is never handed to the processing function.
C15_TimeoutWhileQueued ==
    /\ [][\A i \in Items :
            (QTimeoutFire(i) /\ qWhere[i] = "queued")
            => /\ i \in Range(qItems)
               /\ qItems' = SelectSeq(qItems, LAMBDA x : x # i)
               /\ Len(qItems') = Len(qItems) - 1
               /\ delivered' = {<<i, "rej_qtimeout">>}
               /\ qFut[i] = "pending" /\ qFut'[i] = "settled"
               /\ qTimeout' = qTimeout + 1
               /\ UNCHANGED <<qSuccess, qError>>
               /\ qWhere'[i] = "gone"]_vars
    /\ [][\A i \in Items :
            qWhere[i] = "gone" => (qWhere'[i] = "gone" /\ i \notin Range(qItems'))]_vars
    /\ [](\A c \in qCycles : \A i \in Range(c.taken) : qWhere[i] = "taken")

\* C15 witness: the guard of the first of two queued items fired: it is gone,
\* rejected and counted once, and the second item is still queued.
C15_Witness ==
    /\ engine = "queue"
    /\ delivered = {<<1, "rej_qtimeout">>}
    /\ qWhere[1] = "gone"
    /\ qTimeout = 1
    /\ qItems = <<2>>

\* C16 as stated: Queue: once a cycle has taken an item, the item's timeout
\* guard does not fire: no taken item is rejected with the timeout error or
\* counted in timeoutCount.
C16_TakenIsDefused ==
    [][\A i \in Items : QTimeoutFire(i) => qWhere[i] # "taken"]_vars

\* C16, amended: taking an item leaves its guard as it was, armed; the guard
\* is disarmed when the item's call of the processing function settles, and
\* not before.  Until then it can fire: the taken item is rejected with the
\* timeout error, timeoutCount grows by one and the queue is not touched.
C16_DefusedOnSettle ==
    /\ [][\A i \in Items :
            (qWhere[i] = "queued" /\ qWhere'[i] = "taken")
            => (qGuard[i] = "armed" /\ qGuard'[i] = "armed")]_vars
    /\ [][\A c \in qCycles : \A i \in c.out : \A ok \in BOOLEAN :
            QProcSettle(c, i, ok) => qGuard'[i] # "armed"]_vars
    /\ [][\A i \in Items :
            (qWhere[i] = "taken" /\ qGuard[i] = "armed" /\ qGuard'[i] # "armed")
            => \/ QTimeoutFire(i)
               \/ \E c \in qCycles : \E ok \in BOOLEAN : QProcSettle(c, i, ok)]_vars
    /\ [][\A i \in Items :
            (QTimeoutFire(i) /\ qWhere[i] = "taken")
            => /\ delivered' = {<<i, "rej_qtimeout">>}
               /\ qTimeout' = qTimeout + 1
               /\ qItems' = qItems]_vars

\* C16 witness: the guard of an item fired while the item's call of the
\* processing function was outstanding.
C16_Witness ==
    /\ engine = "queue"
    /\ \E c \in qCycles : \E i \in c.out :
          /\ delivered = {<<i, "rej_qtimeout">>}
          /\ qWhere[i] = "taken"
          /\ qGuard[i] = "off"
          /\ qTimeout = 1

\* C17: Queue: when the guard of an item fires while the item's call of the
\* processing function is outstanding, the caller's promise, pending until
\* then, is rejected with the timeout error and timeoutCount grows by exactly
\* one; the guard is then spent for good, and a later completion of the
\* processing function changes neither timeoutCount nor the settled promise.
C17_TimeoutWhileProcessing ==
    /\ [][\A i \in Items :
            (QTimeoutFire(i) /\ qWhere[i] = "taken")
            => /\ qFut[i] = "pending"
               /\ qFut'[i] = "settled"
               /\ delivered' = {<<i, "rej_qtimeout">>}
               /\ "timeout" \in emitted'
               /\ qTimeout' = qTimeout + 1
               /\ qGuard'[i] = "off"]_vars
    /\ [][\A i \in Items : qGuard[i] = "off" => qGuard'[i] = "off"]_vars
    /\ [][\A i \in Items : qGuard[i] = "off" => ~QTimeoutFire(i)]_vars
    /\ [][\A c \in qCycles : \A i \in c.out : \A ok \in BOOLEAN :
            QProcSettle(c, i, ok)
            => /\ qTimeout' = qTimeout
               /\ qGuard[i] = "off" => (qFut[i] = "settled" /\ qFut'[i] = "settled")]_vars

\* C17 witness: the processing function completed for an item whose guard
\* had fired; timeoutCount still counts the item once.
C17_Witness ==
    /\ engine = "queue"
    /\ qGuard[1] = "off"
    /\ qFut[1] = "settled"
    /\ qTimeout = 1
    /\ \E o \in {"res", "rej_thrown"} : <<1, o>> \in delivered
    /\ \A c \in qCycles : 1 \notin c.out

\* C18: Queue: the engine does not stay blocked on a call whose guard has
\* fired: when the guards of all the items taken by the only cycle in flight
\* have fired, the processing flag is cleared, although calls of the
\* processing function are still outstanding.
C18_ResumesOnGuards ==
    \A c \in qCycles :
        (/\ qCycles = {c}
         /\ c.out # {}
         /\ \A i \in Range(c.taken) : qGuard[i] = "off")
        => ~qProcessing

\* C19: Queue: when the processing of one item of a cycle throws, only that
\* item's promise is rejected and only errorCount grows, by one; the promises,
\* guards and outstanding calls of the other items of the cycle are left as
\* they are, each of them is settled with its own outcome and counted once
\* when its own call settles, and the end of the cycle clears the processing
\* flag.
C19_ErrorIsolated ==
    /\ [][\A c \in qCycles : \A i \in c.out :
            QProcSettle(c, i, FALSE)
            => /\ delivered' = {<<i, "rej_thrown">>}
               /\ qError' = qError + 1
               /\ qSuccess' = qSuccess
               /\ qTimeout' = qTimeout
               /\ \A j \in Items \ {i} :
                     /\ qFut'[j] = qFut[j]
                     /\ qGuard'[j] = qGuard[j]
                     /\ qWhere'[j] = qWhere[j]
               /\ \E d \in qCycles' : d.taken = c.taken /\ d.out = c.out \ {i}]_vars
    /\ [][\A c \in qCycles : \A j \in c.out :
            QProcSettle(c, j, TRUE)
            => /\ delivered' = {<<j, "res">>}
               /\ qSuccess' = qSuccess + 1
               /\ qError' = qError
               /\ qFut'[j] = "settled"]_vars
    /\ [][\A c \in qCycles : QCycleEnd(c) => (c.out = {} /\ ~qProcessing')]_vars

\* C19 witness: a cycle took two items; the processing of the first threw
\* and the second has just been resolved.
C19_Witness ==
    /\ engine = "queue"
    /\ \E c \in qCycles : Range(c.taken) = {1, 2} /\ c.out = {}
    /\ delivered = {<<2, "res">>}
    /\ qError = 1
    /\ qSuccess = 1
    /\ qTimeout = 0
    /\ qFut[1] = "settled"
    /\ qFut[2] = "settled"

\* C20: Queue of type fifo with concurrency 1: items are taken one at a time
\* and in admission order: a step that takes an item takes the head of the
\* queue, and no item admitted before it (items are admitted in increasing
\* order) is still waiting; items that left the queue by their timeout or by
\* clear are skipped.
C20_FifoOrder ==
    [][(qType = "fifo" /\ qConcurrency = 1)
       => \A i \in Items :
            (qWhere[i] = "queued" /\ qWhere'[i] = "taken")
            => /\ qItems # <<>>
               /\ i = Head(qItems)
               /\ qItems' = Tail(qItems)
               /\ \A j \in Items : j < i => qWhere[j] # "queued"
               /\ \A j \in Items \ {i} : qWhere'[j] = qWhere[j]]_vars

\* C20 witness: in a fifo queue of concurrency 1 the first item admitted was
\* taken and processed, and a later cycle has taken the second.
C20_Witness ==
    /\ engine = "queue"
    /\ qType = "fifo"
    /\ qConcurrency = 1
    /\ \E c \in qCycles : c.taken = <<2>> /\ c.out = {2}
    /\ qFut[1] = "settled"
    /\ qSuccess + qError = 1
    /\ qTimeout = 0

\* C21: Queue of type lifo: a step that takes items takes the last
\* min(concurrency, length) items of the queue, so the most recently
\* admitted item still queued is among them, and the items left behind are
\* the earlier ones, in their order.
C21_LifoTakesTail ==
    [][(qType = "lifo" /\ \E i \in Items : qWhere[i] = "queued" /\ qWhere'[i] = "taken")
       => LET n == Min(qConcurrency, Len(qItems))
          IN /\ n >= 1
             /\ qWhere'[qItems[Len(qItems)]] = "taken"
             /\ {i \in Items : qWhere[i] = "queued" /\ qWhere'[i] = "taken"}
                  = {qItems[k] : k \in (Len(qItems) - n + 1)..Len(qItems)}
             /\ qItems' = SubSeq(qItems, 1, Len(qItems) - n)
             /\ \A j \in Range(qItems') : \A i \in Items :
                   (qWhere[i] = "queued" /\ qWhere'[i] = "taken") => j < i
             /\ \E c \in qCycles' :
                   c.taken = SubSeq(qItems, Len(qItems) - n + 1, Len(qItems))]_vars

\* C21 witness: a lifo queue held both items and a cycle of one item took
\* the second and left the first.
C21_Witness ==
    /\ engine = "queue"
    /\ qType = "lifo"
    /\ qItems = <<1>>
    /\ qWhere[1] = "queued"
    /\ \E c \in qCycles : c.taken = <<2>> /\ c.out = {2}
    /\ qSuccess + qError + qTimeout = 0

\* C22: Batch: a step that starts a flush hands the processing function the
\* first min(batchSize, length) items of the queue, in admission order
\* (items are admitted in increasing order); the items left in the queue are
\* the later ones, in their order, so no item admitted before a taken item
\* is still waiting.
C22_BatchOrder ==
    [][LET T == {i \in Items : bWhere[i] # "taken" /\ bWhere'[i] = "taken"}
       IN T # {}
          => /\ \E f \in bFlushes' :
                   /\ Range(f.batch) = T
                   /\ Len(f.batch) = Min(bBatchSize, Cardinality(T) + Len(bItems'))
                   /\ \A k \in 1..(Len(f.batch) - 1) : f.batch[k] < f.batch[k + 1]
             /\ \A k \in 1..(Len(bItems') - 1) : bItems'[k] < bItems'[k + 1]
             /\ \A i \in T : \A j \in Range(bItems') : i < j
             /\ \A i \in T : \A j \in Items : j < i => bWhere'[j] # "queued"]_vars

\* C22 witness: with batchSize 1 a flush took the first item and left the
\* second, admitted later, at the head of the queue.
C22_Witness ==
    /\ engine = "batch"
    /\ bBatchSize = 1
    /\ bItems = <<2>>
    /\ bWhere[2] = "queued"
    /\ bRunning
    /\ bFlushes = {Flush(<<1>>)}

\* C23: Queue: init() called while the interval timer is set throws the
\* 'Queue already initialized' error and changes nothing, so the timer that
\* was set stays the only one; init() called while no timer is set throws
\* nothing and sets it, and stop(), destroy() and the stop() inside flush()
\* leave no timer set, so that init() succeeds after them.
C23_InitOnce ==
    /\ [][QInit => IF qInterval
                    THEN thrown' = "already_initialized" /\ UNCHANGED qvars
                    ELSE thrown' = "none" /\ qInterval']_vars
    /\ [][(QStop \/ QDestroy) => ~qInterval']_vars
    /\ [][(QFlushStep /\ qDrain.at = "yield") => ~qInterval']_vars
    /\ [](thrown # "none" => qInterval)

\* C23 witness: init() has just been refused on a queue whose scheduler is
\* running a cycle.
C23_Witness ==
    /\ engine = "queue"
    /\ thrown = "already_initialized"
    /\ qInterval
    /\ qCycles # {}

\* C24: Queue: no items are taken while the paused flag is set: a tick on a
\* paused queue changes nothing, and a step that takes items leaves the flag
\* clear (the only such step that starts with the flag set is the one in
\* which flush() calls stop(), which clears the flag before the cycle
\* starts).  enqueue on a paused queue admits as on any other.  pause()
\* does not touch a cycle in flight: each outstanding call of the cycle can
\* still settle, settles its item as usual, and the end of the cycle clears
\* the processing flag.
C24_PauseGatesCycles ==
    /\ [][(QTick /\ qPaused) => UNCHANGED qvars]_vars
    /\ [][(\E i \in Items : qWhere[i] = "queued" /\ qWhere'[i] = "taken")
          => /\ ~qPaused'
             /\ qPaused => (QFlushStep /\ qDrain.at = "yield")]_vars
    /\ [][\A i \in Items :
            (QEnqueue(i) /\ qPaused /\ ~QFull(qItems, qLimit))
            => (qItems' = Append(qItems, i) /\ qFut'[i] = "pending")]_vars
    /\ [][QPause => (qPaused' /\ UNCHANGED <<qCycles, qProcessing, qItems,
                                             qGuard, qFut, qWhere>>)]_vars
    /\ [](qPaused => \A c \in qCycles : \A i \in c.out :
                        ENABLED QProcSettle(c, i, TRUE))
    /\ [][\A c \in qCycles : \A i \in c.out : \A ok \in BOOLEAN :
            (QProcSettle(c, i, ok) /\ qPaused)
            => /\ delivered' = {<<i, QProcOutcome(ok)>>}
               /\ qFut'[i] = "settled"
               /\ qPaused']_vars
    /\ [][\A c \in qCycles : (QCycleEnd(c) /\ qPaused) => (~qProcessing' /\ qPaused')]_vars

\* C24 witness: pause() was called while a cycle was processing item 1; the
\* item has just been resolved, the queue is still paused and item 2 waits.
C24_Witness ==
    /\ engine = "queue"
    /\ qPaused
    /\ qInterval
    /\ delivered = {<<1, "res">>}
    /\ qFut[1] = "settled"
    /\ qSuccess = 1
    /\ qItems = <<2>>
    /\ qProcessing

\* C25: Queue: clear(true), also as called by destroy(), empties the queue,
\* rejects the pending promise of every item it discards with the 'Queue
\* cleared' error and switches the item's guard off, without counting
\* anything; an item discarded with its guard off never times out, never
\* returns to the queue and is never taken by a cycle.
C25_ClearRejectsAndDisarms ==
    /\ [][(QClear(TRUE) \/ QDestroy)
          => /\ qItems' = <<>>
             /\ delivered' = {<<i, "rej_cleared">> : i \in Range(qItems)}
             /\ \A i \in Range(qItems) :
                   /\ qFut[i] = "pending"
                   /\ qFut'[i] = "settled"
                   /\ qGuard[i] = "armed"
                   /\ qGuard'[i] = "off"
                   /\ qWhere'[i] = "gone"
             /\ UNCHANGED <<qSuccess, qError, qTimeout, qCycles>>]_vars
    /\ [][\A i \in Items :
            (qWhere[i] = "gone" /\ qGuard[i] = "off")
            => /\ ~QTimeoutFire(i)
               /\ qWhere'[i] = "gone"
               /\ qGuard'[i] = "off"
               /\ qFut'[i] = "settled"
               /\ i \notin Range(qItems')
               /\ \A c \in qCycles' : i \notin Range(c.taken)]_vars

\* C25 witness: clear(true) has just discarded both items of the queue.
C25_Witness ==
    /\ engine = "queue"
    /\ delivered = {<<1, "rej_cleared">>, <<2, "rej_cleared">>}
    /\ emitted = {"drained"}
    /\ qItems = <<>>
    /\ \A i \in Items : qGuard[i] = "off" /\ qFut[i] = "settled" /\ qWhere[i] = "gone"
    /\ qTimeout = 0

\* C26: Queue: flush() first stops the scheduler and clears the paused and
\* processing flags, then runs cycles; it returns only on an empty queue,
\* publishing drained, and only an init() made meanwhile can have restarted
\* the scheduler.  When every call of the processing function settles and
\* the queue is not paused while flush() runs, every flush() call returns,
\* also one made on a paused queue or while a cycle is in flight.
C26_FlushTerminates ==
    /\ [][(QFlushStep /\ qDrain.at = "yield")
          => (~qInterval' /\ ~qPaused')]_vars
    /\ [][(QFlushStep /\ qDrain'.at = "idle")
          => (Len(qItems') = 0 /\ "drained" \in emitted')]_vars
    /\ [][(qDrain.at \in {"sleep", "await"} /\ ~qInterval /\ qInterval')
          => QInit]_vars
    /\ (qDrain.at # "idle") ~> (qDrain.at = "idle" /\ Len(qItems) = 0)

\* C26 witness: flush() was called while a cycle was in flight; it has
\* stopped the scheduler and awaits a cycle of its own next to the first.
C26_Witness ==
    /\ engine = "queue"
    /\ qDrain.at = "await"
    /\ ~qInterval
    /\ Cardinality(qCycles) = 2
    /\ \E c \in qCycles : c.taken = qDrain.on /\ c.out # {}

\* C27: Batch: every flush() call returns, with the queue empty, when every
\* invocation of the processing function settles or is timed out, also when
\* flush() is called while a flush is in flight.
C27_DrainTerminates ==
    (bDrain # "idle") ~> (bDrain = "idle" /\ Len(bItems) = 0)

\* C28: Queue: destroy() notifies the listeners registered before the call
\* of the destroyed event, having stopped the scheduler and rejected the
\* queued items.
C28_DestroyedHeard ==
    [][QDestroy
       => /\ "destroyed" \in heard'
          /\ ~qInterval'
          /\ delivered' = {<<i, "rej_cleared">> : i \in Range(qItems)}]_vars

\* C29: a lifecycle call (Batch clear or destroy; Queue pause, resume, stop
\* or destroy) that leaves the engine's state as it was, as the second of
\* two calls in a row does, publishes no lifecycle event.
C29_EventsOnlyOnChange ==
    [][LET Lifecycle == {"stop", "drained", "paused", "resumed", "destroyed"}
       IN /\ ((BClear \/ BDestroy) /\ UNCHANGED bvars)
              => emitted' \cap Lifecycle = {}
          /\ ((QPause \/ QResume \/ QStop \/ QDestroy) /\ UNCHANGED qvars)
              => emitted' \cap Lifecycle = {}]_vars

\* C30: Queue: the full event is emitted by the enqueue that brings the
\* number of queued items up to config.limit, and by no other enqueue.
C30_FullWhenReached ==
    [][\A i \in Items :
          QEnqueue(i)
          => (("full" \in emitted')
              <=> (Len(qItems) < qLimit /\ Len(qItems') = qLimit))]_vars

\* C31: neither engine retries: an item is handed to the processing function
\* at most once.  An item that was taken or dropped never returns to the
\* queue and enters no new invocation, whatever became of the invocation
\* that took it; the invocations in flight hold disjoint items, none of
\* which is queued; and a call of the Queue's processing function that has
\* settled is never outstanding again.
C31_NoRetry ==
    /\ [][\A i \in Items :
            /\ bWhere[i] \in {"taken", "gone"}
                 => /\ bWhere'[i] = bWhere[i]
                    /\ i \notin Range(bItems')
                    /\ \A f \in bFlushes' :
                          i \in Range(f.batch)
                          => \E g \in bFlushes : g.batch = f.batch
            /\ qWhere[i] \in {"taken", "gone"}
                 => /\ qWhere'[i] = qWhere[i]
                    /\ i \notin Range(qItems')
                    /\ \A c \in qCycles' :
                          i \in c.out
                          => \E d \in qCycles : d.taken = c.taken /\ i \in d.out]_vars
    /\ [](\A f, g \in bFlushes :
            /\ Range(f.batch) \cap Range(bItems) = {}
            /\ \A k \in 1..Len(f.batch) : bWhere[f.batch[k]] = "taken"
            /\ \A k, l \in 1..Len(f.batch) : k # l => f.batch[k] # f.batch[l]
            /\ f.batch # g.batch => Range(f.batch) \cap Range(g.batch) = {})
    /\ [](\A c, d \in qCycles :
            /\ Range(c.taken) \cap Range(qItems) = {}
            /\ \A k \in 1..Len(c.taken) : qWhere[c.taken[k]] = "taken"
            /\ \A k, l \in 1..Len(c.taken) : k # l => c.taken[k] # c.taken[l]
            /\ c.taken # d.taken => Range(c.taken) \cap Range(d.taken) = {})

\* C31 witness: the invocation on item 1 threw, item 1 was rejected and is
\* in no queue and no invocation, while item 2 is being processed.
C31_Witness ==
    /\ engine = "batch"
    /\ delivered = {<<1, "rej_thrown">>}
    /\ bWhere[1] = "taken"
    /\ bItems = <<>>
    /\ bError = 1
    /\ bFlushes = {Flush(<<2>>)}

\* C34: Queue: a tick that finds the processing flag set, the paused flag
\* set or the queue empty changes nothing: no item is taken, no call of the
\* processing function is made, no counter or flag changes, and no event is
\* published and no promise touched.
C34_TickNoOp ==
    [][(QTick /\ (qProcessing \/ qPaused \/ Len(qItems) = 0))
       => /\ UNCHANGED qvars
          /\ emitted' = {}
          /\ heard' = {}
          /\ delivered' = {}
          /\ thrown' = "none"]_vars

\* C34 witness: what a tick finds when a cycle is running: the scheduler
\* is active, the processing flag is set by the cycle on item 1, whose guard
\* has fired, and item 2 waits; nothing was published or taken.
C34_Witness ==
    /\ engine = "queue"
    /\ qInterval
    /\ qProcessing
    /\ ~qPaused
    /\ qItems = <<2>>
    /\ qCycles = {Cycle(<<1>>)}
    /\ qGuard[1] = "off"
    /\ qTimeout = 1
    /\ emitted = {}
    /\ delivered = {}
    /\ thrown = "none"

\* C35: Batch, every add made with doRun = true: whenever items are queued
\* and no flush is running, the interval timer is set.
C35_QueuedHasTimer ==
    (Len(bItems) > 0 /\ ~bRunning) => bTimer

\* C36: Queue: every admitted item is counted at most once: successCount +
\* errorCount + timeoutCount never exceeds the number of items admitted.
C36_CountedOnce ==
    qSuccess + qError + qTimeout
        <= Cardinality({i \in Items : qWhere[i] # "new"})

\* C38: Queue: an item discarded by clear(false), which leaves the queue
\* with its promise pending and its guard armed, has no further effect: its
\* guard never fires (no timeout counted, no timeout event, no rejection)
\* and its promise stays as it is.
C38_DiscardedIsInert ==
    [][\A i \in Items :
          (qWhere[i] = "gone" /\ qGuard[i] = "armed")
          => /\ ~QTimeoutFire(i)
             /\ <<i, "rej_qtimeout">> \notin delivered'
             /\ qFut'[i] = qFut[i]]_vars

\* C39: the paused flag is changed only by pause() and resume(); once paused,
\* the queue stays paused across stop(), flush(), init() and clear() until
\* resume() is called.
C39_PausedOnlyByPauseResume ==
    [][(qPaused # qPaused') => (QPause \/ QResume)]_vars

\* C32: an exception thrown by a subscriber during emit is caught inside
\* emit: it never reaches the caller of emit, and the listener that follows
\* the throwing one in the array is still called.
C32_ThrowContained ==
    engine = "emitter" =>
      /\ thrown = "none"
      /\ \A p \in 1..Len(eLast.start) :
            (/\ eThrows[eLast.start[p]]
             /\ eLast.start[p] \in Range(eLast.invoked)
             /\ p < Len(eLast.start))
            => eLast.start[p + 1] \in Range(eLast.invoked)

\* C32 witness: the last emit called a throwing listener that was not the
\* last of the array.
C32_Witness ==
    /\ engine = "emitter"
    /\ \E p \in 1..Len(eLast.start) :
          /\ eThrows[eLast.start[p]]
          /\ eLast.start[p] \in Range(eLast.invoked)
          /\ p < Len(eLast.start)

\* C33: a listener registered with once() is called at most once over any
\* sequence of emits and is no longer registered after its first call,
\* whatever it does when called.
C33_OnceAtMostOnce ==
    \A l \in Listeners :
       eKind[l] = "once" =>
         /\ eCalls[l] <= 1
         /\ (eCalls[l] >= 1 => l \notin Range(eListeners))

\* C37: emit calls every listener registered when it starts, once each and
\* in registration order, and returns the number of listeners it called,
\* also when some of them were registered with once().
C37_EmitCallsAll ==
    engine = "emitter" =>
      /\ eLast.invoked = eLast.start
      /\ eLast.returned = Len(eLast.invoked)

\* C40: start() on a running Loop makes the previous run exit before the new
\* one begins, so fn is never awaited by two runs at once; and after stop()
\* no run calls fn again until the next start().
C40_OneRunAtATime ==
    /\ [](Cardinality({r \in Runs : lRun[r] = "fn"}) <= 1)
    /\ [][\A r \in Runs :
            (~lRunning /\ lRun[r] # "fn" /\ lRun'[r] = "fn")
            => (LStart(r) \/ LStopWake(r))]_vars

====
